---- MODULE Spec2Model ----
(***************************************************************************)
(* wxGtkDebugLog (src/src/gtk/debughlp.cpp): the conditional debug logger  *)
(* of the GTK backend.  The file holds two definitions of the function;    *)
(* `build` says which of the two the program was built from.  Each thread  *)
(* runs calls of the function statement by statement; the environment      *)
(* (the GDK_DEBUG variable, the real-time clock, whether the log file can  *)
(* be opened) changes between the statements.                              *)
(***************************************************************************)
EXTENDS Integers, Sequences, FiniteSets, TLC

\* ---------------------------------------------------------------- bounds
\* calls of wxGtkDebugLog made in one run of the process
MaxCalls == 2
\* the real-time clock counts 0..MaxClock nanosecond units
MaxClock == 2
\* tv_nsec ranges over 0..NsecRange-1 (10^9 on the real clock)
NsecRange == 2
Threads == {"t1", "t2"}

\* ------------------------------------------------------------ data types
IntArg(n) == [ty |-> "d", i |-> n, s |-> ""]
LongArg(n) == [ty |-> "ld", i |-> n, s |-> ""]
StrArg(x) == [ty |-> "s", i |-> 0, s |-> x]
\* a va_list passed where fprintf expects a value (second definition)
VaListArg == [ty |-> "va_list", i |-> 0, s |-> ""]

\* The expansions of DO_GTK_DEBUG_LOG the threads execute: the format (a
\* sequence of literal pieces and conversion specifications), __func__,
\* __LINE__, __FILE__ and the variadic arguments, and the thread that runs it.
CallSites ==
    { [thread |-> "t1", format |-> <<"value=", "%d">>, function_name |-> "DoWork",
       line_num |-> 42, src_file |-> "worker.c", args |-> <<IntArg(7)>>],
      [thread |-> "t2", format |-> <<"%s", " done">>, function_name |-> "OnPaint",
       line_num |-> 7, src_file |-> "win.cpp", args |-> <<StrArg("x")>>] }

NoTime == [tv_sec |-> -1, tv_nsec |-> -1]

IdleFrame ==
    [call |-> 0, thread |-> "", format |-> <<>>, function_name |-> "",
     line_num |-> 0, src_file |-> "", args |-> <<>>,
     seen |-> "none", logfile_ |-> "unset", nano_now |-> NoTime,
     setBack |-> FALSE, buf |-> <<>>, ret |-> "pending"]

NewFrame(t, c, site) ==
    [IdleFrame EXCEPT !.call = c, !.thread = t, !.format = site.format,
                      !.function_name = site.function_name,
                      !.line_num = site.line_num, !.src_file = site.src_file,
                      !.args = site.args]

\* content of /tmp/cmclient_gtk.log written before the process started
PriorChunk == [call |-> 0, thread |-> "prior", text |-> <<"old">>]

VARIABLES
    build,              \* 1 or 2: the definition of wxGtkDebugLog that is built
    environ,            \* the process environment: a set of <<name, value>>
    realtime,           \* CLOCK_REALTIME at its last reading, in nanosecond units
    logfile,            \* /tmp/cmclient_gtk.log: [exists, content]
    guard,              \* initialisation state of the function-local static
    GDK_DEBUG_defined,  \* the function-local static
    pc,                 \* each thread's position in wxGtkDebugLog
    frame,              \* each thread's parameters and locals
    crashed,            \* the process was killed by undefined behaviour
    ncalls,             \* calls made so far
    setBack,            \* per thread: the clock was set backwards since the
                        \* thread last read it
    syscalls,           \* how often each library/system call was made
    openHandles,        \* FILE objects opened by the logger and not closed
    hist,               \* the calls that returned, in order of return
    file0               \* the log file when the process started

vars == <<build, environ, realtime, logfile, guard, GDK_DEBUG_defined,
          pc, frame, crashed, ncalls, setBack, syscalls, openHandles, hist, file0>>

\* ------------------------------------------------------- library functions
\* wxGetEnv(name, nullptr): true iff the variable is present, whatever its value
wxGetEnv(name) == \E p \in environ : p[1] = name

\* Mutation of clock_gettime: the two fields of the timespec exchanged.
clock_gettime_Swapped(now) ==
    [tv_sec |-> now % NsecRange, tv_nsec |-> now \div NsecRange]

\* clock_gettime(CLOCK_REALTIME, &ts)
clock_gettime(now) ==
    [tv_sec |-> now \div NsecRange, tv_nsec |-> now % NsecRange]

IsConversion(tok) == tok \in {"%d", "%ld", "%s"}

Matches(tok, arg) ==
    \/ tok = "%d" /\ arg.ty = "d"
    \/ tok = "%ld" /\ arg.ty = "ld"
    \/ tok = "%s" /\ arg.ty = "s"

Render(arg) == IF arg.ty = "s" THEN arg.s ELSE ToString(arg.i)

\* A conversion whose argument is missing or of another type is undefined
\* behaviour.
RECURSIVE HasUB(_, _)
HasUB(format, ap) ==
    IF format = <<>> THEN FALSE
    ELSE IF IsConversion(Head(format))
         THEN \/ ap = <<>>
              \/ ~Matches(Head(format), Head(ap))
              \/ HasUB(Tail(format), Tail(ap))
         ELSE HasUB(Tail(format), ap)

\* vfprintf/fprintf: the characters produced from a format and an argument
\* list; `junk` is what a conversion with undefined behaviour happens to print.
RECURSIVE vformat(_, _, _)
vformat(format, ap, junk) ==
    IF format = <<>> THEN <<>>
    ELSE IF IsConversion(Head(format))
         THEN IF ap # <<>> /\ Matches(Head(format), Head(ap))
              THEN <<Render(Head(ap))>> \o vformat(Tail(format), Tail(ap), junk)
              ELSE <<junk>> \o vformat(Tail(format),
                                       IF ap = <<>> THEN <<>> ELSE Tail(ap), junk)
         ELSE <<Head(format)>> \o vformat(Tail(format), ap, junk)

JunkText == {"<junk>", "7"}

\* write(2) on a descriptor opened with O_APPEND: one atomic append
WriteAppend(content, chunk) == Append(content, chunk)

Chunk(f, text) == [call |-> f.call, thread |-> f.thread, text |-> text]

\* ------------------------------------------------------------ the program
Init ==
    /\ build \in {1, 2}
    /\ environ \in {{}, {<<"GDK_DEBUG", "">>}}
    /\ realtime = 0
    /\ logfile \in {[exists |-> FALSE, content |-> <<>>],
                    [exists |-> TRUE, content |-> <<PriorChunk>>]}
    /\ guard = "uninit"
    /\ GDK_DEBUG_defined = FALSE
    /\ pc = [t \in Threads |-> "idle"]
    /\ frame = [t \in Threads |-> IdleFrame]
    /\ crashed = FALSE
    /\ ncalls = 0
    /\ setBack = [t \in Threads |-> FALSE]
    /\ syscalls = [getenv |-> 0, fopen |-> 0, clock_gettime |-> 0,
                   write |-> 0, fclose |-> 0]
    /\ openHandles = 0
    /\ hist = <<>>
    /\ file0 = logfile

Count(name) == [syscalls EXCEPT ![name] = @ + 1]

\* `return r;` with the locals as they are in f
Return(t, f, r) ==
    /\ pc' = [pc EXCEPT ![t] = "idle"]
    /\ frame' = [frame EXCEPT ![t] = IdleFrame]
    /\ hist' = Append(hist, [f EXCEPT !.ret = r])

Goto(t, f, label) ==
    /\ pc' = [pc EXCEPT ![t] = label]
    /\ frame' = [frame EXCEPT ![t] = f]
    /\ hist' = hist

\* A thread calls wxGtkDebugLog through DO_GTK_DEBUG_LOG.
Call(t) ==
    /\ ~crashed
    /\ pc[t] = "idle"
    /\ ncalls < MaxCalls
    /\ \E site \in {x \in CallSites : x.thread = t} :
          /\ ncalls' = ncalls + 1
          /\ Goto(t, NewFrame(t, ncalls + 1, site), "static")
    /\ UNCHANGED <<build, environ, realtime, logfile, guard,
                   GDK_DEBUG_defined, crashed, setBack, syscalls, openHandles, file0>>

\* Mutation of CheckFlag: the early return is missing.
CheckFlag_NoReturn(t) ==
    Goto(t, [frame[t] EXCEPT !.seen = IF GDK_DEBUG_defined' THEN "yes" ELSE "no"],
         "fopen")

\* `if (!GDK_DEBUG_defined) return false;`
CheckFlag(t) ==
    LET f == [frame[t] EXCEPT !.seen = IF GDK_DEBUG_defined' THEN "yes" ELSE "no"]
    IN IF ~GDK_DEBUG_defined'
       THEN Return(t, f, "false")
       ELSE Goto(t, f, "fopen")

\* Mutation of StaticDone: the variable is not static, every call looks the
\* environment up again.
StaticDone_Reevaluate(t) ==
    /\ ~crashed
    /\ pc[t] = "static"
    /\ guard = "done"
    /\ guard' = guard
    /\ GDK_DEBUG_defined' = wxGetEnv("GDK_DEBUG")
    /\ syscalls' = Count("getenv")
    /\ LET f == [frame[t] EXCEPT !.seen = IF GDK_DEBUG_defined' THEN "yes" ELSE "no"]
       IN IF ~GDK_DEBUG_defined'
          THEN Return(t, f, "false")
          ELSE Goto(t, f, "fopen")
    /\ UNCHANGED <<build, environ, realtime, logfile, crashed,
                   ncalls, setBack, openHandles, file0>>

\* `const static auto GDK_DEBUG_defined = ...`: the static is already
\* initialised, control passes over the declaration to the test of the flag.
StaticDone(t) ==
    /\ ~crashed
    /\ pc[t] = "static"
    /\ guard = "done"
    /\ UNCHANGED <<guard, GDK_DEBUG_defined>>
    /\ CheckFlag(t)
    /\ UNCHANGED <<build, environ, realtime, logfile, crashed,
                   ncalls, setBack, syscalls, openHandles, file0>>

\* Mutation of StaticAcquire: the initialisation is not guarded, a thread
\* that arrives while the initialiser runs runs it too.
StaticAcquire_NoGuard(t) ==
    /\ ~crashed
    /\ pc[t] = "static"
    /\ guard \in {"uninit", "running"}
    /\ guard' = "running"
    /\ Goto(t, frame[t], "getenv")
    /\ UNCHANGED <<build, environ, realtime, logfile,
                   GDK_DEBUG_defined, crashed, ncalls, setBack, syscalls,
                   openHandles, file0>>

\* The first thread to reach the declaration takes the initialisation guard;
\* a thread that arrives while the initialiser runs waits (guard = "running"
\* enables no step for it).
StaticAcquire(t) ==
    /\ ~crashed
    /\ pc[t] = "static"
    /\ guard = "uninit"
    /\ guard' = "running"
    /\ Goto(t, frame[t], "getenv")
    /\ UNCHANGED <<build, environ, realtime, logfile,
                   GDK_DEBUG_defined, crashed, ncalls, setBack, syscalls,
                   openHandles, file0>>

\* The initialiser: wxGetEnv("GDK_DEBUG", nullptr), then the guard is
\* released and the initialising thread tests the flag.
StaticInit(t) ==
    /\ ~crashed
    /\ pc[t] = "getenv"
    /\ GDK_DEBUG_defined' = wxGetEnv("GDK_DEBUG")
    /\ guard' = "done"
    /\ syscalls' = Count("getenv")
    /\ CheckFlag(t)
    /\ UNCHANGED <<build, environ, realtime, logfile, crashed,
                   ncalls, setBack, openHandles, file0>>

\* Mutation of FOpen: mode "w", which truncates the file.
FOpen_Truncate(t) ==
    /\ ~crashed
    /\ pc[t] = "fopen"
    /\ syscalls' = Count("fopen")
    /\ \E ok \in BOOLEAN :
          IF ok
          THEN /\ logfile' = [exists |-> TRUE, content |-> <<>>]
               /\ openHandles' = openHandles + 1
               /\ Goto(t, [frame[t] EXCEPT !.logfile_ = "open"], "clock")
          ELSE /\ UNCHANGED <<logfile, openHandles>>
               /\ Goto(t, [frame[t] EXCEPT !.logfile_ = "null"], "clock")
    /\ UNCHANGED <<build, environ, realtime, guard,
                   GDK_DEBUG_defined, crashed, ncalls, setBack, file0>>

\* `std::fopen("/tmp/cmclient_gtk.log", "a")`: mode "a" creates the file when
\* it does not exist and keeps its content when it does.  Whether the open
\* succeeds (permissions, disk, path) is the environment's choice.
FOpen(t) ==
    /\ ~crashed
    /\ pc[t] = "fopen"
    /\ syscalls' = Count("fopen")
    /\ \E ok \in BOOLEAN :
          IF ok
          THEN /\ logfile' = [logfile EXCEPT !.exists = TRUE]
               /\ openHandles' = openHandles + 1
               /\ Goto(t, [frame[t] EXCEPT !.logfile_ = "open"], "clock")
          ELSE /\ UNCHANGED <<logfile, openHandles>>
               /\ Goto(t, [frame[t] EXCEPT !.logfile_ = "null"], "clock")
    /\ UNCHANGED <<build, environ, realtime, guard,
                   GDK_DEBUG_defined, crashed, ncalls, setBack, file0>>

\* Mutation of ClockRead: the test of logfile_ is missing.
ClockRead_NoNullCheck(t) ==
    /\ ~crashed
    /\ pc[t] = "clock"
    /\ syscalls' = Count("clock_gettime")
    /\ \E now \in 0..MaxClock :
          /\ realtime' = now
          /\ setBack' = [u \in Threads |->
                            IF u = t THEN FALSE ELSE setBack[u] \/ now < realtime]
          /\ Goto(t, [frame[t] EXCEPT !.nano_now = clock_gettime(now),
                                      !.setBack = setBack[t] \/ now < realtime],
                  "print1")
    /\ UNCHANGED <<build, environ, logfile, guard,
                   GDK_DEBUG_defined, crashed, ncalls, openHandles, file0>>

\* Mutation of ClockRead: the clock is not read, nano_now stays as declared.
ClockRead_NoRead(t) ==
    /\ ~crashed
    /\ pc[t] = "clock"
    /\ IF frame[t].logfile_ = "open"
       THEN Goto(t, frame[t], "print1")
       ELSE Return(t, frame[t], "false")
    /\ UNCHANGED <<build, environ, realtime, logfile, guard, GDK_DEBUG_defined,
                   crashed, ncalls, setBack, syscalls, openHandles, file0>>

\* `clock_gettime(CLOCK_REALTIME, &nano_now); if (logfile_ != nullptr) ...
\* return false;`.  CLOCK_REALTIME is the settable wall clock: since the
\* last reading it has stood still, advanced, or been set backwards
\* (clock_settime, an NTP step).
ClockRead(t) ==
    /\ ~crashed
    /\ pc[t] = "clock"
    /\ syscalls' = Count("clock_gettime")
    /\ \E now \in 0..MaxClock :
          /\ realtime' = now
          /\ setBack' = [u \in Threads |->
                            IF u = t THEN FALSE ELSE setBack[u] \/ now < realtime]
          /\ LET f == [frame[t] EXCEPT !.nano_now = clock_gettime(now),
                                       !.setBack = setBack[t] \/ now < realtime]
             IN IF f.logfile_ = "open"
                THEN Goto(t, f, "print1")
                ELSE Return(t, f, "false")
    /\ UNCHANGED <<build, environ, logfile, guard,
                   GDK_DEBUG_defined, crashed, ncalls, openHandles, file0>>

HeaderFormat1 ==
    <<"PreciseTime:", "%ld", ",", "%ld", ". ", "%s", ":", "%d", ":", "%s", "--->">>
HeaderFormat2 == <<"PreciseTime:", "%ld", ",", "%ld", ". ">>

\* the characters of the first fprintf of the built definition
FirstPrint(f) ==
    IF build = 1
    THEN vformat(HeaderFormat1,
                 <<LongArg(f.nano_now.tv_sec), LongArg(f.nano_now.tv_nsec),
                   StrArg(f.src_file), IntArg(f.line_num),
                   StrArg(f.function_name)>>, "")
    ELSE vformat(HeaderFormat2,
                 <<LongArg(f.nano_now.tv_sec), LongArg(f.nano_now.tv_nsec)>>, "")

\* the argument list the second print call reads its conversions from:
\* the caller's variadic arguments (vfprintf with argptr) in the first
\* definition; src_file, line_num, function_name, argptr in the second
SecondArgs(f) ==
    IF build = 1
    THEN f.args
    ELSE <<StrArg(f.src_file), IntArg(f.line_num), StrArg(f.function_name),
           VaListArg>>

SecondPrint(f, junk) == vformat(f.format, SecondArgs(f), junk)

\* The first fprintf.  The stream is buffered by stdio: the characters may
\* stay in the buffer or be transmitted to the file (one write) before the
\* next call on the stream.
Print1(t) ==
    /\ ~crashed
    /\ pc[t] = "print1"
    /\ \E flush \in BOOLEAN :
          IF flush
          THEN /\ logfile' = [logfile EXCEPT !.content =
                                 WriteAppend(@, Chunk(frame[t], FirstPrint(frame[t])))]
               /\ syscalls' = Count("write")
               /\ Goto(t, frame[t], "print2")
          ELSE /\ UNCHANGED <<logfile, syscalls>>
               /\ Goto(t, [frame[t] EXCEPT !.buf = FirstPrint(frame[t])], "print2")
    /\ UNCHANGED <<build, environ, realtime, guard,
                   GDK_DEBUG_defined, crashed, ncalls, setBack, openHandles, file0>>

\* Mutation of Print2Close: the stream is not closed (its buffer is flushed).
Print2Close_NoClose(t) ==
    /\ ~crashed
    /\ pc[t] = "print2"
    /\ \E junk \in JunkText :
          /\ HasUB(frame[t].format, SecondArgs(frame[t])) \/ junk = "<junk>"
          /\ LET out == frame[t].buf \o SecondPrint(frame[t], junk)
             IN /\ logfile' = [logfile EXCEPT !.content =
                                  WriteAppend(@, Chunk(frame[t], out))]
                /\ syscalls' = [syscalls EXCEPT !.write = @ + 1]
                /\ openHandles' = openHandles
                /\ Return(t, [frame[t] EXCEPT !.buf = <<>>], "true")
    /\ UNCHANGED <<build, environ, realtime, guard,
                   GDK_DEBUG_defined, crashed, ncalls, setBack, file0>>

\* Mutation of Print2Close: the message is printed in front of what the
\* buffer holds.
Print2Close_MessageFirst(t) ==
    /\ ~crashed
    /\ pc[t] = "print2"
    /\ \E junk \in JunkText :
          /\ HasUB(frame[t].format, SecondArgs(frame[t])) \/ junk = "<junk>"
          /\ LET out == SecondPrint(frame[t], junk) \o frame[t].buf
             IN /\ logfile' = [logfile EXCEPT !.content =
                                  WriteAppend(@, Chunk(frame[t], out))]
                /\ syscalls' = [syscalls EXCEPT !.fclose = @ + 1, !.write = @ + 1]
                /\ openHandles' = openHandles - 1
                /\ Return(t, [frame[t] EXCEPT !.buf = <<>>], "true")
    /\ UNCHANGED <<build, environ, realtime, guard,
                   GDK_DEBUG_defined, crashed, ncalls, setBack, file0>>

\* The second print call (vfprintf with the caller's format, or fprintf with
\* the caller's format) puts its characters into the stream's buffer;
\* `std::fclose(logfile_); return true;`: fclose transmits what the buffer
\* holds (one write) and releases the stream.
Print2Close(t) ==
    /\ ~crashed
    /\ pc[t] = "print2"
    /\ \E junk \in JunkText :
          /\ HasUB(frame[t].format, SecondArgs(frame[t])) \/ junk = "<junk>"
          /\ LET out == frame[t].buf \o SecondPrint(frame[t], junk)
             IN /\ logfile' = [logfile EXCEPT !.content =
                                  WriteAppend(@, Chunk(frame[t], out))]
                /\ syscalls' = [syscalls EXCEPT !.fclose = @ + 1, !.write = @ + 1]
                /\ openHandles' = openHandles - 1
                /\ Return(t, [frame[t] EXCEPT !.buf = <<>>], "true")
    /\ UNCHANGED <<build, environ, realtime, guard,
                   GDK_DEBUG_defined, crashed, ncalls, setBack, file0>>

\* A conversion with undefined behaviour may also kill the process; the
\* buffered characters are lost and the system closes the descriptors.
CrashUB(t) ==
    /\ ~crashed
    /\ pc[t] = "print2"
    /\ HasUB(frame[t].format, SecondArgs(frame[t]))
    /\ crashed' = TRUE
    /\ openHandles' = 0
    /\ UNCHANGED <<build, environ, realtime, logfile, guard,
                   GDK_DEBUG_defined, pc, frame, ncalls, setBack, syscalls,
                   hist, file0>>

\* -------------------------------------------------------- the environment
SetEnv ==
    /\ ~crashed
    /\ environ = {}
    /\ environ' = {<<"GDK_DEBUG", "">>}
    /\ UNCHANGED <<build, realtime, logfile, guard, GDK_DEBUG_defined,
                   pc, frame, crashed, ncalls, setBack, syscalls, openHandles,
                   hist, file0>>

UnsetEnv ==
    /\ ~crashed
    /\ environ # {}
    /\ environ' = {}
    /\ UNCHANGED <<build, realtime, logfile, guard, GDK_DEBUG_defined,
                   pc, frame, crashed, ncalls, setBack, syscalls, openHandles,
                   hist, file0>>

Next ==
    \/ \E t \in Threads : Call(t)
    \/ \E t \in Threads : StaticDone(t)
    \/ \E t \in Threads : StaticAcquire(t)
    \/ \E t \in Threads : StaticInit(t)
    \/ \E t \in Threads : FOpen(t)
    \/ \E t \in Threads : ClockRead(t)
    \/ \E t \in Threads : Print1(t)
    \/ \E t \in Threads : Print2Close(t)
    \/ \E t \in Threads : CrashUB(t)
    \/ SetEnv
    \/ UnsetEnv

Spec == Init /\ [][Next]_vars

\* ------------------------------------------------------------- the claims
Returned == {hist[i] : i \in 1..Len(hist)}
Active == {frame[t] : t \in {u \in Threads : pc[u] # "idle"}}
Content == logfile.content
FlagText == IF GDK_DEBUG_defined THEN "yes" ELSE "no"

\* what the calls of thread-call c have put into the file, in file order
RECURSIVE TextOf(_, _)
TextOf(content, c) ==
    IF content = <<>> THEN <<>>
    ELSE (IF Head(content).call = c THEN Head(content).text ELSE <<>>)
         \o TextOf(Tail(content), c)
CallText(c) == TextOf(Content, c)

TsLeq(a, b) ==
    \/ a.tv_sec < b.tv_sec
    \/ a.tv_sec = b.tv_sec /\ a.tv_nsec <= b.tv_nsec

\* the record the contract describes for a returned call h
ExpectedHeader(h) ==
    <<"PreciseTime:", ToString(h.nano_now.tv_sec), ",",
      ToString(h.nano_now.tv_nsec), ". ", h.src_file, ":",
      ToString(h.line_num), ":", h.function_name, "--->">>
ExpectedRecord(h) == ExpectedHeader(h) \o vformat(h.format, h.args, "")

\* C1: when GDK_DEBUG is absent at the first call, every call returns false,
\* the log file is as it was when the process started (existence and
\* content), and neither fopen nor clock_gettime nor a write was ever made.
C1_DisabledNoIO ==
    (guard = "done" /\ ~GDK_DEBUG_defined) =>
        /\ logfile = file0
        /\ syscalls.fopen = 0
        /\ syscalls.clock_gettime = 0
        /\ syscalls.write = 0
        /\ openHandles = 0
        /\ \A h \in Returned :
              h.ret = "false" /\ h.logfile_ = "unset" /\ h.nano_now = NoTime
        /\ \A f \in Active : f.logfile_ = "unset" /\ f.nano_now = NoTime

\* two calls, one of each thread, have returned with logging disabled
C1_Witness ==
    /\ guard = "done" /\ ~GDK_DEBUG_defined
    /\ \E a, b \in Returned : a.thread # b.thread

\* C2: the flag is computed once, at the first call, from the presence of
\* GDK_DEBUG; once computed neither it nor the number of environment lookups
\* changes whatever the environment does, and every later call takes the
\* branch the stored value dictates.
C2_Step ==
    /\ (guard # "done" /\ guard' = "done") =>
          GDK_DEBUG_defined' = (\E p \in environ : p[1] = "GDK_DEBUG")
    /\ guard = "done" =>
          /\ guard' = "done"
          /\ GDK_DEBUG_defined' = GDK_DEBUG_defined
          /\ syscalls'.getenv = syscalls.getenv
          /\ \A t \in Threads :
                (pc[t] = "static" /\ pc'[t] # "static") =>
                   IF GDK_DEBUG_defined
                   THEN pc'[t] = "fopen" /\ frame'[t].seen = "yes"
                   ELSE /\ pc'[t] = "idle"
                        /\ Len(hist') = Len(hist) + 1
                        /\ hist'[Len(hist')].ret = "false"
                        /\ hist'[Len(hist')].seen = "no"
                        /\ logfile' = logfile
C2_FlagLatched == [][C2_Step]_vars

\* a call after the first is past the test as enabled although the
\* variable has been removed from the environment
C2_Witness ==
    \E t \in Threads :
        /\ pc[t] = "fopen" /\ frame[t].call >= 2
        /\ environ = {} /\ GDK_DEBUG_defined

\* C3: the log file is append-only: every step leaves the old content as a
\* prefix of the new one and never removes the file, and what a step appends
\* belongs to the call its thread is running, so the records of one thread's
\* successive calls appear in call order.
C3_Step ==
    /\ logfile.exists => logfile'.exists
    /\ Len(logfile'.content) >= Len(Content)
    /\ SubSeq(logfile'.content, 1, Len(Content)) = Content
    /\ \A i \in (Len(Content) + 1)..Len(logfile'.content) :
          LET c == logfile'.content[i]
          IN /\ c.thread \in Threads
             /\ pc[c.thread] # "idle"
             /\ c.call = frame[c.thread].call
             /\ \A k \in 1..Len(Content) :
                   Content[k].thread = c.thread => Content[k].call <= c.call
C3_AppendOnly == [][C3_Step]_vars

\* the prior content is followed by the records of two calls of one thread
C3_Witness ==
    /\ Len(Content) >= 3
    /\ Content[1] = PriorChunk
    /\ \E i, j \in 2..Len(Content) :
          /\ i < j
          /\ Content[i].thread = Content[j].thread
          /\ Content[i].call < Content[j].call

\* C4: an enabled call whose open fails returns false and writes nothing,
\* the flag stays set, and every call whose open succeeds returns true with
\* its record in the file, also after a failed one.
C4_OpenFailure ==
    \A h \in Returned :
        /\ h.logfile_ = "null" =>
              /\ h.ret = "false"
              /\ CallText(h.call) = <<>>
              /\ guard = "done" /\ GDK_DEBUG_defined
        /\ h.logfile_ = "open" =>
              /\ h.ret = "true"
              /\ CallText(h.call) # <<>>

\* a call whose open failed is followed, in the same thread, by a call that
\* logged and returned true
C4_Witness ==
    \E a, b \in Returned :
        /\ a.thread = b.thread /\ a.call < b.call
        /\ a.logfile_ = "null" /\ a.ret = "false"
        /\ b.logfile_ = "open" /\ b.ret = "true"

\* C5: every enabled call whose open succeeded returned true and put exactly
\* one record into the file: seconds, nanoseconds, source file, line number,
\* function name, then the caller's format applied to the caller's arguments.
C5_RecordLayout ==
    \A h \in Returned :
        h.logfile_ = "open" =>
            /\ h.ret = "true"
            /\ CallText(h.call) = ExpectedRecord(h)

\* C6 as stated: of two records written by successive calls of one thread,
\* the later one carries a timestamp greater than or equal to the earlier.
C6_Monotonic ==
    \A a, b \in Returned :
        (a.thread = b.thread /\ a.call < b.call
         /\ a.ret = "true" /\ b.ret = "true") =>
            TsLeq(a.nano_now, b.nano_now)

\* C6 amended: each record carries the CLOCK_REALTIME reading its call took,
\* and of two records written by successive calls of one thread the later
\* timestamp is greater or equal provided the clock was not set backwards
\* between the two readings.
C6_MonotonicUnlessSetBack ==
    /\ \A h \in Returned :
          h.ret = "true" =>
             /\ Len(CallText(h.call)) >= 4
             /\ CallText(h.call)[2] = ToString(h.nano_now.tv_sec)
             /\ CallText(h.call)[4] = ToString(h.nano_now.tv_nsec)
             /\ h.nano_now.tv_nsec \in 0..(NsecRange - 1)
    /\ \A a, b \in Returned :
          (/\ a.thread = b.thread /\ a.call < b.call
           /\ a.ret = "true" /\ b.ret = "true"
           /\ \A y \in Returned :
                 (y.thread = a.thread /\ a.call < y.call /\ y.call <= b.call)
                    => ~y.setBack) =>
              TsLeq(a.nano_now, b.nano_now)

\* two records of one thread, the second stamped in a later second
C6_Witness ==
    \E a, b \in Returned :
        /\ a.thread = b.thread /\ a.call < b.call
        /\ a.ret = "true" /\ b.ret = "true" /\ ~b.setBack
        /\ a.nano_now.tv_nsec > b.nano_now.tv_nsec
        /\ a.nano_now.tv_sec < b.nano_now.tv_sec

\* C7: the handle is scoped to the call: the open FILE objects are exactly
\* those of the calls that are between their successful fopen and their
\* fclose, so when no call is running none is open.
C7_HandleScoped ==
    ~crashed =>
        /\ openHandles =
              Cardinality({t \in Threads :
                              pc[t] # "idle" /\ frame[t].logfile_ = "open"})
        /\ \A t \in Threads : pc[t] \in {"static", "getenv", "fopen"} =>
              frame[t].logfile_ = "unset"

\* no call is running, one returned after a write and one after a failed open
C7_Witness ==
    /\ ~crashed /\ openHandles = 0
    /\ \A t \in Threads : pc[t] = "idle"
    /\ \E a, b \in Returned :
          a.logfile_ = "open" /\ a.ret = "true" /\ b.logfile_ = "null"

\* C8 as stated: the clock is read before the file is opened: a call that
\* has opened (or failed to open) the file has taken its clock reading.
C8_ClockBeforeOpen ==
    \A f \in Active : f.logfile_ # "unset" => f.nano_now # NoTime

\* C8 amended: the flag is tested, then the file is opened, then the clock is
\* read: a call that has its clock reading has attempted the open, a call
\* that attempted the open passed the test, and nothing of a record is
\* printed before the clock reading that stamps it.
C8_OpenBeforeClock ==
    \A f \in Active \cup Returned :
        /\ f.nano_now # NoTime => f.logfile_ # "unset"
        /\ f.logfile_ # "unset" => f.seen = "yes"
        /\ (f.buf # <<>> \/ CallText(f.call) # <<>>) => f.nano_now # NoTime

\* a call holds the open file and has not read the clock yet
C8_Witness ==
    \E t \in Threads :
        /\ pc[t] = "clock"
        /\ frame[t].logfile_ = "open"
        /\ frame[t].nano_now = NoTime

\* C9 as stated: the parts of one call's record are contiguous in the file
\* under every interleaving.
C9_Contiguous ==
    \A i, k \in 1..Len(Content) :
        (i < k /\ Content[i].call = Content[k].call) =>
            \A j \in i..k : Content[j].call = Content[i].call

\* C9 amended: a call's output starts with its header and the message
\* follows it; what can stand between the two in the file is only output of
\* calls of other threads, so the records of calls that do not run
\* concurrently with another thread's call are contiguous.
C9_ContiguousPerThread ==
    /\ \A i, k \in 1..Len(Content) :
          (i < k /\ Content[i].call = Content[k].call) =>
              \A j \in (i + 1)..(k - 1) :
                  Content[j].thread # Content[i].thread
    /\ \A h \in Returned :
          h.ret = "true" =>
             /\ Len(CallText(h.call)) >= 5
             /\ SubSeq(CallText(h.call), 1, 5) = SubSeq(ExpectedHeader(h), 1, 5)

\* a record whose two parts are separated by another thread's output
C9_Witness ==
    \E i, k \in 1..Len(Content) :
        /\ i + 1 < k
        /\ Content[i].call = Content[k].call
        /\ Content[i + 1].thread # Content[i].thread

\* C10: the environment is looked up at most once, exactly once when the
\* initialisation is complete; no call is past the declaration of the static
\* before that, and all calls that tested the flag saw the same value.
C10_InitOnce ==
    /\ syscalls.getenv = (IF guard = "done" THEN 1 ELSE 0)
    /\ \A t \in Threads :
          pc[t] \in {"fopen", "clock", "print1", "print2"} => guard = "done"
    /\ \A f \in Active \cup Returned :
          f.seen # "none" => (guard = "done" /\ f.seen = FlagText)
    /\ Cardinality({t \in Threads : pc[t] = "getenv"}) <=
          (IF guard = "running" THEN 1 ELSE 0)

\* both threads made their first call while the static was uninitialised:
\* one runs the initialiser, the other waits at the declaration
C10_Witness ==
    /\ guard = "running"
    /\ \E t, u \in Threads : pc[t] = "getenv" /\ pc[u] = "static"

====
